---- MODULE Spec2Model ----
(***************************************************************************)
(* Model of monitor.py: a run-once page monitor.  The module reads its     *)
(* configuration from the environment, parses the URL list, fetches each   *)
(* URL in order (classifying it hit / miss / fetch error and sleeping      *)
(* after each one), and sends at most one alert e-mail over SMTP.          *)
(*                                                                         *)
(* Text is modelled as a sequence of fragments.  Text that the code        *)
(* inspects character by character (the URL configuration, page text,      *)
(* search text) is a sequence of one-character fragments; the literals the *)
(* code only concatenates (the subject and body templates, the fetch-error *)
(* tag) are kept as one fragment each.                                     *)
(***************************************************************************)
EXTENDS Integers, Sequences, FiniteSets, TLC

VARIABLES
    pc,               \* position of the run
    env_TARGET_URLS,  \* os.getenv("TARGET_URLS", "") before .strip()
    TARGET_URLS_RAW,  \* _TARGET_URLS_RAW
    SEARCH_TEXT,      \* SEARCH_TEXT
    CSS_SELECTOR,     \* CSS_SELECTOR
    SMTP_SERVER, SMTP_PORT, SMTP_USER, SMTP_PASS,
    urls,             \* main: urls
    idx,              \* check_urls: 1-based position of the loop variable url
    html,             \* check_urls: html of the current iteration
    hits, misses,     \* check_urls: the two result lists
    subject, body,    \* main: the composed message
    session,          \* the smtplib.SMTP object: "none", "open" or "closed"
    failed,           \* send_email: an exception is propagating to the except clause
    send_result,      \* send_email: its return value (FALSE until it returns)
    match_result,     \* page_contains_text: its return value (FALSE until it returns)
    events            \* observation: the external calls made so far, in order

vars == << pc, env_TARGET_URLS, TARGET_URLS_RAW, SEARCH_TEXT, CSS_SELECTOR,
           SMTP_SERVER, SMTP_PORT, SMTP_USER, SMTP_PASS, urls, idx, html,
           hits, misses, subject, body, session, failed, send_result,
           match_result, events >>

(***************************************************************************)
(* Bounds of the model.                                                    *)
(***************************************************************************)
MaxParseChunks == 5   \* chunks in a TARGET_URLS value, parse_urls runs
MaxEnvChunks == 3     \* chunks in a TARGET_URLS value, whole runs
MaxTextLen == 2       \* characters of a page's visible text
MaxSel == 2           \* elements a selector matches
MaxSearchLen == 2     \* characters of a search text

None == "None"
NL == "\n"
QUOTE == "\""
SP == " "

(***************************************************************************)
(* str helpers                                                             *)
(***************************************************************************)
\* str.isspace() on the characters of the model
IsSpace(c) == c \in {SP, NL}

RECURSIVE lstrip(_)
lstrip(s) ==
    IF s # << >> /\ IsSpace(Head(s)) THEN lstrip(Tail(s)) ELSE s

RECURSIVE rstrip(_)
rstrip(s) ==
    IF s # << >> /\ IsSpace(s[Len(s)]) THEN rstrip(SubSeq(s, 1, Len(s) - 1)) ELSE s

\* str.strip()
strip(s) == rstrip(lstrip(s))

\* sep in s
Contains(s, c) == \E i \in 1..Len(s) : s[i] = c

\* s.split(sep) for a one-character sep: k separators give k + 1 parts
RECURSIVE split(_, _)
split(s, sep) ==
    IF ~Contains(s, sep) THEN << s >>
    ELSE LET i == CHOOSE k \in 1..Len(s) :
                      s[k] = sep /\ \A j \in 1..(k - 1) : s[j] # sep
         IN  << SubSeq(s, 1, i - 1) >> \o split(SubSeq(s, i + 1, Len(s)), sep)

\* str.lower() on the characters of the model
LowerChar(c) == IF c = "S" THEN "s" ELSE c
lower(s) == [i \in 1..Len(s) |-> LowerChar(s[i])]

\* needle in haystack (substring test)
IsSubstring(needle, haystack) ==
    \E i \in 0..(Len(haystack) - Len(needle)) :
        SubSeq(haystack, i + 1, i + Len(needle)) = needle

\* sep.join(parts)
RECURSIVE join(_, _)
join(sep, parts) ==
    IF parts = << >> THEN << >>
    ELSE IF Len(parts) = 1 THEN parts[1]
    ELSE parts[1] \o sep \o join(sep, Tail(parts))

\* str(n) for n >= 0, as the f-string formats len(...)
Digit(d) == <<"0", "1", "2", "3", "4", "5", "6", "7", "8", "9">>[d + 1]
RECURSIVE ToDec(_)
ToDec(n) == IF n < 10 THEN << Digit(n) >> ELSE ToDec(n \div 10) \o << Digit(n % 10) >>

(***************************************************************************)
(* json.loads on the characters of the model: whitespace, "[", "]", ",",   *)
(* and string literals without escapes.  A value is a string or an array;  *)
(* any other character starts no JSON value and raises.                    *)
(***************************************************************************)
JsonFail == [ok |-> FALSE, next |-> 0, val |-> << >>]

RECURSIVE JsonSkipWs(_, _)
JsonSkipWs(s, i) ==
    IF i <= Len(s) /\ IsSpace(s[i]) THEN JsonSkipWs(s, i + 1) ELSE i

\* s[i] is the opening quote; a raw newline inside a string is rejected
RECURSIVE JsonStringEnd(_, _)
JsonStringEnd(s, j) ==
    IF j > Len(s) THEN 0
    ELSE IF s[j] = QUOTE THEN j
    ELSE IF s[j] = NL THEN 0
    ELSE JsonStringEnd(s, j + 1)

RECURSIVE JsonValue(_, _)
RECURSIVE JsonElems(_, _, _)
\* after a value of an array: "," and another value, or "]"
JsonElems(s, i, acc) ==
    LET v == JsonValue(s, i) IN
    IF ~v.ok THEN JsonFail
    ELSE LET j == JsonSkipWs(s, v.next) IN
         IF j > Len(s) THEN JsonFail
         ELSE IF s[j] = "]" THEN
             [ok |-> TRUE, next |-> j + 1,
              val |-> [isStr |-> FALSE, s |-> << >>, items |-> Append(acc, v.val)]]
         ELSE IF s[j] = "," THEN
             JsonElems(s, JsonSkipWs(s, j + 1), Append(acc, v.val))
         ELSE JsonFail

JsonValue(s, i) ==
    IF i > Len(s) THEN JsonFail
    ELSE IF s[i] = QUOTE THEN
        LET e == JsonStringEnd(s, i + 1) IN
        IF e = 0 THEN JsonFail
        ELSE [ok |-> TRUE, next |-> e + 1,
              val |-> [isStr |-> TRUE, s |-> SubSeq(s, i + 1, e - 1), items |-> << >>]]
    ELSE IF s[i] = "[" THEN
        LET j == JsonSkipWs(s, i + 1) IN
        IF j > Len(s) THEN JsonFail
        ELSE IF s[j] = "]" THEN
            [ok |-> TRUE, next |-> j + 1,
             val |-> [isStr |-> FALSE, s |-> << >>, items |-> << >>]]
        ELSE JsonElems(s, j, << >>)
    ELSE JsonFail

\* json.loads(raw): ok is FALSE where it raises (also on trailing data)
json_loads(raw) ==
    LET v == JsonValue(raw, JsonSkipWs(raw, 1)) IN
    IF v.ok /\ JsonSkipWs(raw, v.next) > Len(raw) THEN v ELSE JsonFail

(***************************************************************************)
(* parse_urls                                                              *)
(***************************************************************************)
\* [f(x) for x in xs if keep(x)] with f = strip, keep = non-empty after strip
RECURSIVE StripNonEmpty(_)
StripNonEmpty(parts) ==
    IF parts = << >> THEN << >>
    ELSE LET p == strip(Head(parts)) IN
         (IF p # << >> THEN << p >> ELSE << >>) \o StripNonEmpty(Tail(parts))

\* [u.strip() for u in arr if isinstance(u, str) and u.strip()]
RECURSIVE JsonStrings(_)
JsonStrings(arr) ==
    IF arr = << >> THEN << >>
    ELSE (IF Head(arr).isStr /\ strip(Head(arr).s) # << >>
             THEN << strip(Head(arr).s) >> ELSE << >>) \o JsonStrings(Tail(arr))

\* the for sep in ["\n", ","] loop with its break
SplitText(raw) ==
    IF Contains(raw, NL) THEN StripNonEmpty(split(raw, NL))
    ELSE IF Contains(raw, ",") THEN StripNonEmpty(split(raw, ","))
    ELSE << >>

\* mutant: the "if not raw: return []" guard is missing
parse_urls_NoEmptyGuard(raw) ==
    IF raw # << >> /\ Head(raw) = "[" /\ json_loads(raw).ok
         THEN JsonStrings(json_loads(raw).val.items)
    ELSE LET parts == SplitText(raw) IN
         IF parts # << >> THEN parts ELSE << raw >>

parse_urls(raw) ==
    IF raw = << >> THEN << >>
    ELSE IF Head(raw) = "[" /\ json_loads(raw).ok
         THEN JsonStrings(json_loads(raw).val.items)
    ELSE LET parts == SplitText(raw) IN
         IF parts # << >> THEN parts ELSE << raw >>

(***************************************************************************)
(* page_contains_text.  BeautifulSoup's view of a page is a record: text   *)
(* is soup.get_text(separator=" ", strip=True) and sel lists               *)
(* el.get_text(separator=" ", strip=True) for el in soup.select(selector). *)
(* The text of an element is a contiguous part of the document's text.     *)
(***************************************************************************)
\* mutant: an empty selection falls back to the whole page's text
Haystack_Fallback(page, css_selector) ==
    IF css_selector # << >> /\ page.sel # << >>
        THEN join(<< SP >>, page.sel) ELSE page.text

Haystack(page, css_selector) ==
    IF css_selector # << >> THEN join(<< SP >>, page.sel) ELSE page.text

page_contains_text(page, text, css_selector) ==
    IsSubstring(lower(text), lower(Haystack(page, css_selector)))

(***************************************************************************)
(* Inputs                                                                  *)
(***************************************************************************)
RECURSIVE Flatten(_)
Flatten(ss) == IF ss = << >> THEN << >> ELSE Head(ss) \o Flatten(Tail(ss))

\* every concatenation of at most n chunks
ChunkStrings(chunks, n) ==
    UNION { { Flatten(f) : f \in [1..k -> chunks] } : k \in 0..n }

\* every string of at most n characters
Strings(chars, n) == UNION { [1..k -> chars] : k \in 0..n }

\* TARGET_URLS values for the parse_urls runs: plain, comma-, newline-separated
\* and JSON text, well-formed and not
ParseChunks ==
    { << "a" >>, << SP >>, << "," >>, << NL >>, << "[" >>, << "]" >>,
      << QUOTE, "a", QUOTE >>, << QUOTE, SP, "b", QUOTE >> }
ParseInputs(n) == ChunkStrings(ParseChunks, n)

\* TARGET_URLS values for whole runs
EnvChunks == { << "a" >>, << ",", "b" >>, << "," >>, << SP >> }
EnvInputs(n) == ChunkStrings(EnvChunks, n)

TextChars == { "S", "s", "x" }
Substrings(t) ==
    { SubSeq(t, i, j) : i \in 1..(Len(t) + 1), j \in 0..Len(t) }
\* the pages of visible text t in which a selector matches at most m elements
PagesOf(t, m) ==
    { [none |-> FALSE, text |-> t, sel |-> e] :
        e \in UNION { [1..k -> Substrings(t)] : k \in 0..m } }
Pages(n, m) == UNION { PagesOf(t, m) : t \in Strings(TextChars, n) }
SearchTexts(n) == Strings(TextChars, n)
Selectors == { << >>, << ".x" >> }

\* fetch_html's "no content" result
NoHtml == [none |-> TRUE, text |-> << >>, sel |-> << >>]
\* the pages the remote sites serve during a run
FetchPages ==
    { [none |-> FALSE, text |-> << "s", "x" >>, sel |-> << << "x" >> >>],
      [none |-> FALSE, text |-> << "S" >>, sel |-> << >>],
      [none |-> FALSE, text |-> << "x" >>, sel |-> << << "x" >> >>] }

SmtpPortDefault == 587
\* SMTP_SERVER, SMTP_PORT, SMTP_USER, SMTP_PASS as the environment gives them
SmtpConfigs ==
    { [server |-> "smtp.test", port |-> SmtpPortDefault, user |-> "u", pass |-> "p"],
      [server |-> None, port |-> SmtpPortDefault, user |-> "u", pass |-> "p"],
      [server |-> "smtp.test", port |-> 0, user |-> "u", pass |-> "p"],
      [server |-> "smtp.test", port |-> SmtpPortDefault, user |-> None, pass |-> "p"],
      [server |-> "smtp.test", port |-> SmtpPortDefault, user |-> "u", pass |-> ""],
      [server |-> None, port |-> SmtpPortDefault, user |-> None, pass |-> None] }

(***************************************************************************)
(* The state after the module is imported (lines 15-24)                    *)
(***************************************************************************)
Event(op, i, ok) == [op |-> op, i |-> i, ok |-> ok]

Loaded(env, text, selector, smtp) ==
    /\ env_TARGET_URLS = env
    /\ TARGET_URLS_RAW = strip(env)
    /\ SEARCH_TEXT = strip(text)
    /\ CSS_SELECTOR = selector
    /\ SMTP_SERVER = smtp.server
    /\ SMTP_PORT = smtp.port
    /\ SMTP_USER = smtp.user
    /\ SMTP_PASS = smtp.pass
    /\ urls = << >>
    /\ idx = 0
    /\ hits = << >>
    /\ misses = << >>
    /\ subject = << >>
    /\ body = << >>
    /\ session = "none"
    /\ failed = FALSE
    /\ send_result = FALSE
    /\ match_result = FALSE
    /\ events = << >>

Init ==
    /\ pc = "main"
    /\ \E env \in EnvInputs(MaxEnvChunks), selector \in Selectors, smtp \in SmtpConfigs :
           Loaded(env, << "S" >>, selector, smtp)
    /\ html = NoHtml

(***************************************************************************)
(* main, check_urls                                                        *)
(***************************************************************************)
configVars == << env_TARGET_URLS, TARGET_URLS_RAW, SEARCH_TEXT, CSS_SELECTOR,
                 SMTP_SERVER, SMTP_PORT, SMTP_USER, SMTP_PASS >>
smtpVars == << session, failed, send_result >>

\* main, lines 106-111: parse, return if empty, else enter check_urls
MainStart ==
    /\ pc = "main"
    /\ urls' = parse_urls(TARGET_URLS_RAW)
    /\ IF urls' = << >>
          THEN pc' = "done" /\ idx' = idx
          ELSE pc' = "fetch" /\ idx' = 1
    /\ hits' = << >>
    /\ misses' = << >>
    /\ UNCHANGED << configVars, smtpVars, html, subject, body, match_result, events >>

\* check_urls, line 94: fetch_html returns the page's text or None
FetchHtml ==
    /\ pc = "fetch"
    /\ \E r \in FetchPages \cup { NoHtml } :
          /\ html' = r
          /\ events' = Append(events, Event("fetch", idx, ~r.none))
    /\ pc' = "classify"
    /\ UNCHANGED << configVars, smtpVars, urls, idx, hits, misses, subject, body,
                    match_result >>

\* mutant: a fetch error is appended to hits
Classify_ErrorAsHit ==
    /\ pc = "classify"
    /\ IF html.none
          THEN /\ hits' = Append(hits, urls[idx] \o << " [fetch error]" >>)
               /\ UNCHANGED << misses, events >>
          ELSE LET found == page_contains_text(html, SEARCH_TEXT, CSS_SELECTOR) IN
               /\ events' = Append(events, Event("match", idx, found))
               /\ IF found
                     THEN hits' = Append(hits, urls[idx]) /\ misses' = misses
                     ELSE misses' = Append(misses, urls[idx]) /\ hits' = hits
    /\ pc' = "sleep"
    /\ UNCHANGED << configVars, smtpVars, urls, idx, html, subject, body, match_result >>

\* check_urls, lines 95-101
Classify ==
    /\ pc = "classify"
    /\ IF html.none
          THEN /\ misses' = Append(misses, urls[idx] \o << " [fetch error]" >>)
               /\ UNCHANGED << hits, events >>
          ELSE LET found == page_contains_text(html, SEARCH_TEXT, CSS_SELECTOR) IN
               /\ events' = Append(events, Event("match", idx, found))
               /\ IF found
                     THEN hits' = Append(hits, urls[idx]) /\ misses' = misses
                     ELSE misses' = Append(misses, urls[idx]) /\ hits' = hits
    /\ pc' = "sleep"
    /\ UNCHANGED << configVars, smtpVars, urls, idx, html, subject, body, match_result >>

\* mutant: a fetch error ends the pass
Sleep_AbortOnError ==
    /\ pc = "sleep"
    /\ events' = Append(events, Event("sleep", idx, TRUE))
    /\ IF idx < Len(urls) /\ ~html.none
          THEN pc' = "fetch" /\ idx' = idx + 1
          ELSE pc' = "report" /\ idx' = idx
    /\ UNCHANGED << configVars, smtpVars, urls, html, hits, misses, subject, body,
                    match_result >>

\* mutant: no delay after the last URL
Sleep_SkipLast ==
    /\ pc = "sleep"
    /\ IF idx < Len(urls)
          THEN /\ events' = Append(events, Event("sleep", idx, TRUE))
               /\ pc' = "fetch" /\ idx' = idx + 1
          ELSE /\ events' = events
               /\ pc' = "report" /\ idx' = idx
    /\ UNCHANGED << configVars, smtpVars, urls, html, hits, misses, subject, body,
                    match_result >>

\* check_urls, line 102, then the next iteration or the return to main
Sleep ==
    /\ pc = "sleep"
    /\ events' = Append(events, Event("sleep", idx, TRUE))
    /\ IF idx < Len(urls)
          THEN pc' = "fetch" /\ idx' = idx + 1
          ELSE pc' = "report" /\ idx' = idx
    /\ UNCHANGED << configVars, smtpVars, urls, html, hits, misses, subject, body,
                    match_result >>

Prefixed(lines) == [i \in 1..Len(lines) |-> << "- " >> \o lines[i]]

\* mutant: the subject counts the URLs that are not hits
Subject_CountsMisses(text, nhits, nurls) ==
    << "[ALERT] Found '" >> \o text \o << "' on " >> \o ToDec(nurls - nhits) \o << "/" >>
        \o ToDec(nurls) \o << " URL(s)" >>

Subject(text, nhits, nurls) ==
    << "[ALERT] Found '" >> \o text \o << "' on " >> \o ToDec(nhits) \o << "/" >>
        \o ToDec(nurls) \o << " URL(s)" >>

BodyLines(text, selector, hitList, missList) ==
    << << "Search text: '" >> \o text \o << "'" >>,
       << "CSS selector: '" >> \o (IF selector # << >> THEN selector ELSE << "N/A" >>)
           \o << "'" >>,
       << >>,
       << "Found on:" >> >>
    \o Prefixed(hitList)
    \o << << >>, << "Not found on:" >> >>
    \o (IF missList # << >> THEN Prefixed(missList) ELSE << << "- (none)" >> >>)
    \o << << >>, << "Checked by monitor.py" >> >>

\* mutant: the e-mail is sent whether or not there are hits
Report_Always ==
    /\ pc = "report"
    /\ subject' = Subject(SEARCH_TEXT, Len(hits), Len(urls))
    /\ body' = join(<< NL >>, BodyLines(SEARCH_TEXT, CSS_SELECTOR, hits, misses))
    /\ events' = Append(events, Event("send_email", 0, TRUE))
    /\ pc' = "send_email"
    /\ UNCHANGED << configVars, smtpVars, urls, idx, html, hits, misses, match_result >>

\* main, lines 113-133: compose and call send_email, or log that nothing matched
Report ==
    /\ pc = "report"
    /\ IF hits # << >>
          THEN /\ subject' = Subject(SEARCH_TEXT, Len(hits), Len(urls))
               /\ body' = join(<< NL >>, BodyLines(SEARCH_TEXT, CSS_SELECTOR, hits, misses))
               /\ events' = Append(events, Event("send_email", 0, TRUE))
               /\ pc' = "send_email"
          ELSE /\ pc' = "done"
               /\ UNCHANGED << subject, body, events >>
    /\ UNCHANGED << configVars, smtpVars, urls, idx, html, hits, misses, match_result >>

(***************************************************************************)
(* send_email                                                              *)
(***************************************************************************)
Truthy(v) == v \notin { None, "" }

\* mutant: the port is not part of the check
CredentialsComplete_NoPort ==
    Truthy(SMTP_SERVER) /\ Truthy(SMTP_USER) /\ Truthy(SMTP_PASS)

\* all([SMTP_SERVER, SMTP_PORT, SMTP_USER, SMTP_PASS])
CredentialsComplete ==
    Truthy(SMTP_SERVER) /\ SMTP_PORT # 0 /\ Truthy(SMTP_USER) /\ Truthy(SMTP_PASS)

\* the except clause: log and return False
ReturnFalse ==
    /\ send_result' = FALSE
    /\ pc' = "done"

\* lines 70-78: the credentials check, then the message is built (may raise)
SendEmailEnter ==
    /\ pc = "send_email"
    /\ IF ~CredentialsComplete
          THEN ReturnFalse /\ UNCHANGED events
          ELSE \E ok \in BOOLEAN :
                  /\ events' = Append(events, Event("compose", 0, ok))
                  /\ IF ok THEN pc' = "connect" /\ send_result' = send_result
                           ELSE ReturnFalse
    /\ UNCHANGED << configVars, session, failed, urls, idx, html, hits, misses,
                    subject, body, match_result >>

\* line 80: smtplib.SMTP(...) connects; on failure there is no object to exit
SmtpConnect ==
    /\ pc = "connect"
    /\ \E ok \in BOOLEAN :
          /\ events' = Append(events, Event("connect", 0, ok))
          /\ IF ok THEN /\ session' = "open"
                        /\ pc' = "starttls"
                        /\ send_result' = send_result
                   ELSE /\ session' = session
                        /\ ReturnFalse
    /\ UNCHANGED << configVars, failed, urls, idx, html, hits, misses, subject, body,
                    match_result >>

\* mutant: no with block, an exception leaves the session open
SmtpStep_NoWith(at, op, next) ==
    /\ pc = at
    /\ \E ok \in BOOLEAN :
          /\ events' = Append(events, Event(op, 0, ok))
          /\ failed' = ~ok
          /\ pc' = IF ok THEN next ELSE "done"
    /\ UNCHANGED << configVars, session, send_result, urls, idx, html, hits, misses,
                    subject, body, match_result >>

\* a step inside the with block: on an exception control leaves through __exit__
SmtpStep(at, op, next) ==
    /\ pc = at
    /\ \E ok \in BOOLEAN :
          /\ events' = Append(events, Event(op, 0, ok))
          /\ failed' = ~ok
          /\ pc' = IF ok THEN next ELSE "exit"
    /\ UNCHANGED << configVars, session, send_result, urls, idx, html, hits, misses,
                    subject, body, match_result >>

\* line 81
SmtpStarttls == SmtpStep("starttls", "starttls", "login")
\* line 82
SmtpLogin == SmtpStep("login", "login", "send")
\* line 83
SmtpSendMessage == SmtpStep("send", "send", "exit")

\* the end of the with block: SMTP.__exit__ sends QUIT (which may raise) and
\* closes the connection in its finally; then lines 84-88
SmtpExit ==
    /\ pc = "exit"
    /\ \E ok \in BOOLEAN :
          /\ events' = Append(events, Event("close", 0, ok))
          /\ session' = "closed"
          /\ send_result' = (~failed /\ ok)
    /\ pc' = "done"
    /\ UNCHANGED << configVars, failed, urls, idx, html, hits, misses, subject, body,
                    match_result >>

Next ==
    \/ MainStart
    \/ FetchHtml
    \/ Classify
    \/ Sleep
    \/ Report
    \/ SendEmailEnter
    \/ SmtpConnect
    \/ SmtpStarttls
    \/ SmtpLogin
    \/ SmtpSendMessage
    \/ SmtpExit

Spec == Init /\ [][Next]_vars

(***************************************************************************)
(* parse_urls alone, over a wider set of TARGET_URLS values                *)
(***************************************************************************)
InitParse ==
    /\ pc = "main"
    /\ \E env \in ParseInputs(MaxParseChunks) :
           Loaded(env, << "S" >>, << >>,
                  [server |-> None, port |-> SmtpPortDefault, user |-> None, pass |-> None])
    /\ html = NoHtml

\* parse_urls(_TARGET_URLS_RAW), line 106
ParseUrlsCall ==
    /\ pc = "main"
    /\ urls' = parse_urls(TARGET_URLS_RAW)
    /\ pc' = "parsed"
    /\ UNCHANGED << configVars, smtpVars, idx, html, hits, misses, subject, body,
                    match_result, events >>

SpecParse == InitParse /\ [][ParseUrlsCall]_vars

(***************************************************************************)
(* page_contains_text alone, over pages, search texts and selectors        *)
(***************************************************************************)
InitMatch ==
    /\ pc = "page_contains_text"
    /\ html \in Pages(MaxTextLen, MaxSel)
    /\ \E text \in SearchTexts(MaxSearchLen), selector \in Selectors :
           Loaded(<< >>, text, selector,
                  [server |-> None, port |-> SmtpPortDefault, user |-> None, pass |-> None])

\* page_contains_text(html, SEARCH_TEXT, CSS_SELECTOR), line 98
PageContainsTextCall ==
    /\ pc = "page_contains_text"
    /\ match_result' = page_contains_text(html, SEARCH_TEXT, CSS_SELECTOR)
    /\ pc' = "returned"
    /\ UNCHANGED << configVars, smtpVars, urls, idx, html, hits, misses, subject, body,
                    events >>

SpecMatch == InitMatch /\ [][PageContainsTextCall]_vars


(***************************************************************************)
(* Observations used by the properties                                     *)
(***************************************************************************)
EvSel(ops) == SelectSeq(events, LAMBDA e : e.op \in ops)
Count(op) == Len(EvSel({ op }))
Happened(op, i, ok) == \E k \in 1..Len(events) : events[k] = Event(op, i, ok)

\* URLs whose iteration has appended its entry
Processed == IF pc \in { "main", "fetch", "classify" } /\ idx > 0 THEN idx - 1 ELSE idx

\* the classification of the URL at position i, from what was observed
Outcome(i) ==
    IF Happened("fetch", i, FALSE) THEN "fetch-error"
    ELSE IF Happened("match", i, TRUE) THEN "hit"
    ELSE "miss"

RECURSIVE HitsUpTo(_)
HitsUpTo(k) ==
    IF k = 0 THEN << >>
    ELSE HitsUpTo(k - 1) \o (IF Outcome(k) = "hit" THEN << urls[k] >> ELSE << >>)

RECURSIVE NonHitsUpTo(_)
NonHitsUpTo(k) ==
    IF k = 0 THEN << >>
    ELSE NonHitsUpTo(k - 1) \o
         (CASE Outcome(k) = "hit" -> << >>
            [] Outcome(k) = "miss" -> << urls[k] >>
            [] OTHER -> << urls[k] \o << " [fetch error]" >> >>)

AfterCheck == pc \in { "report", "send_email", "connect", "starttls", "login",
                       "send", "exit", "done" } /\ urls # << >>
EmailCalled == Count("send_email") > 0
IsBlank(s) == \A i \in 1..Len(s) : IsSpace(s[i])

(***************************************************************************)
(* C1                                                                      *)
(***************************************************************************)
\* the delimited entries of a URL list, by its shape
C1_IsJsonStringArray(raw) ==
    /\ raw # << >> /\ Head(raw) = "[" /\ json_loads(raw).ok
    /\ \A i \in 1..Len(json_loads(raw).val.items) : json_loads(raw).val.items[i].isStr
C1_IsJsonOther(raw) ==
    raw # << >> /\ Head(raw) = "[" /\ json_loads(raw).ok /\ ~C1_IsJsonStringArray(raw)
C1_Entries(raw) ==
    IF C1_IsJsonStringArray(raw)
        THEN [i \in 1..Len(json_loads(raw).val.items) |-> json_loads(raw).val.items[i].s]
    ELSE IF Contains(raw, NL) THEN split(raw, NL)
    ELSE IF Contains(raw, ",") THEN split(raw, ",")
    ELSE << raw >>

\* C1: for a URL list given as a JSON array of strings, a comma-separated or a
\* newline-separated string, parse_urls returns exactly the trimmed, non-empty
\* entries in their original order (none at all when every entry is blank).
C1_ParseReturnsTrimmedNonEmptyEntries ==
    (pc = "parsed" /\ ~C1_IsJsonOther(TARGET_URLS_RAW))
        => urls = StripNonEmpty(C1_Entries(TARGET_URLS_RAW))

(***************************************************************************)
(* C2                                                                      *)
(***************************************************************************)
\* C2: with an empty or whitespace-only TARGET_URLS the parsed list is empty and
\* the run ends having made no fetch_html call and no send_email call.
C2_BlankConfigNoNetwork ==
    IsBlank(env_TARGET_URLS) =>
        /\ urls = << >>
        /\ pc \in { "main", "done" }
        /\ Count("fetch") = 0
        /\ Count("send_email") = 0

C2_Witness ==
    /\ env_TARGET_URLS # << >> /\ IsBlank(env_TARGET_URLS)
    /\ pc = "done" /\ urls = << >> /\ events = << >>

(***************************************************************************)
(* C3                                                                      *)
(***************************************************************************)
\* C3: send_email is called at most once per run and only with a non-empty hit
\* list; when every URL failed to fetch the hit list is empty and no e-mail is sent.
C3_EmailOnlyOnHits ==
    /\ Count("send_email") <= 1
    /\ EmailCalled => (hits # << >> /\ \E i \in 1..Len(urls) : Outcome(i) = "hit")
    /\ (AfterCheck /\ \A i \in 1..Len(urls) : Outcome(i) = "fetch-error")
           => (hits = << >> /\ ~EmailCalled)

C3_Witness ==
    /\ pc = "done" /\ Len(urls) >= 2
    /\ \A i \in 1..Len(urls) : Happened("fetch", i, FALSE)
    /\ hits = << >> /\ ~EmailCalled

(***************************************************************************)
(* C4                                                                      *)
(***************************************************************************)
\* C4: after the first k URLs, hits holds exactly the URLs among them that were
\* fetched and matched, misses exactly one entry for each of the others (tagged
\* "[fetch error]" when the fetch failed), both in configured order, so that
\* len(hits) + len(misses) = k.
C4_OneEntryPerUrl ==
    pc # "parsed" =>
        /\ Len(hits) + Len(misses) = Processed
        /\ hits = HitsUpTo(Processed)
        /\ misses = NonHitsUpTo(Processed)

C4_Witness ==
    /\ pc = "done" /\ Len(urls) = 3
    /\ Outcome(1) = "fetch-error" /\ Outcome(2) = "hit" /\ Outcome(3) = "miss"
    /\ hits = << urls[2] >>
    /\ misses = << urls[1] \o << " [fetch error]" >>, urls[3] >>

(***************************************************************************)
(* C5                                                                      *)
(***************************************************************************)
C5_SelectorMatchesNothing ==
    pc = "returned" /\ CSS_SELECTOR # << >> /\ html.sel = << >>

\* C5 as stated: with a non-empty selector that matches no element,
\* page_contains_text returns false for every search text.
C5_Original == C5_SelectorMatchesNothing => ~match_result

\* C5 amended: with a non-empty selector that matches no element,
\* page_contains_text returns false for every non-empty search text, whatever the
\* document's text, and true for the empty search text.
C5_StrictNarrowing ==
    C5_SelectorMatchesNothing => (match_result <=> SEARCH_TEXT = << >>)

C5_Witness ==
    /\ C5_SelectorMatchesNothing
    /\ SEARCH_TEXT # << >>
    /\ IsSubstring(lower(SEARCH_TEXT), lower(html.text))
    /\ ~match_result

(***************************************************************************)
(* C6                                                                      *)
(***************************************************************************)
\* the lines of the body that follow the line `header`, up to the next empty line
RECURSIVE C6_UntilBlank(_)
C6_UntilBlank(lines) ==
    IF lines = << >> \/ Head(lines) = << >> THEN << >>
    ELSE << Head(lines) >> \o C6_UntilBlank(Tail(lines))
C6_Section(header) ==
    LET lines == split(body, NL)
        at == CHOOSE k \in 1..Len(lines) : lines[k] = << header >>
    IN  C6_UntilBlank(SubSeq(lines, at + 1, Len(lines)))

\* C6: when there are hits, the subject reports <number of hits>/<number of URLs>,
\* the body lists exactly the hit URLs under "Found on:" and exactly the other
\* URLs' entries (or "- (none)") under "Not found on:", in configured order.
C6_MessageReportsOutcomes ==
    EmailCalled =>
        LET n == Len(urls)
            h == HitsUpTo(n)
            m == NonHitsUpTo(n)
        IN  /\ IsSubstring(<< "' on " >> \o ToDec(Len(h)) \o << "/" >> \o ToDec(n)
                               \o << " URL(s)" >>, subject)
            /\ C6_Section("Found on:") = [i \in 1..Len(h) |-> << "- " >> \o h[i]]
            /\ Len(m) = n - Len(h)
            /\ C6_Section("Not found on:") =
                   IF m = << >> THEN << << "- (none)" >> >>
                   ELSE [i \in 1..Len(m) |-> << "- " >> \o m[i]]

C6_Witness ==
    /\ EmailCalled /\ Len(urls) = 3
    /\ Outcome(1) = "fetch-error" /\ Outcome(2) = "hit" /\ Outcome(3) = "miss"
    /\ IsSubstring(<< "1", "/", "3" >>, subject)

(***************************************************************************)
(* C7                                                                      *)
(***************************************************************************)
SmtpOps == { "connect", "starttls", "login", "send", "close" }

\* a parameter is missing: unset, empty, or (the port) zero
C7_AnyMissing ==
    \/ SMTP_SERVER \in { None, "" }
    \/ SMTP_PORT = 0
    \/ SMTP_USER \in { None, "" }
    \/ SMTP_PASS \in { None, "" }

\* C7: with any of the four SMTP parameters missing, send_email returns False
\* without attempting any SMTP step, and the run ends normally.
C7_IncompleteCredentialsNoSmtp ==
    C7_AnyMissing =>
        /\ EvSel(SmtpOps) = << >>
        /\ session = "none"
        /\ ~send_result
        /\ EmailCalled => pc \in { "send_email", "done" }

C7_Witness ==
    /\ C7_AnyMissing /\ SMTP_PORT = 0
    /\ EmailCalled /\ pc = "done" /\ ~send_result

(***************************************************************************)
(* C8                                                                      *)
(***************************************************************************)
\* position i was fetched, in the order of the calls
FetchPositions == [k \in 1..Count("fetch") |-> EvSel({ "fetch" })[k].i]

\* C8: fetch_html is called exactly once per list position, in order, whatever
\* the earlier fetches returned; when the pass ends all N positions were fetched
\* and classified.
C8_FetchFailureDoesNotAbort ==
    pc # "parsed" =>
        /\ FetchPositions =
               [k \in 1..(IF pc = "classify" THEN idx ELSE Processed) |-> k]
        /\ AfterCheck => (Count("fetch") = Len(urls)
                          /\ Len(hits) + Len(misses) = Len(urls))

C8_Witness ==
    /\ pc = "done" /\ Len(urls) = 3
    /\ Happened("fetch", 1, FALSE) /\ Happened("fetch", 2, FALSE)
    /\ Happened("fetch", 3, TRUE)
    /\ FetchPositions = << 1, 2, 3 >>

(***************************************************************************)
(* C9                                                                      *)
(***************************************************************************)
\* C9: the fetches and delays alternate, fetch i then delay i, for every outcome;
\* nothing of the notification happens before the N-th delay, and a finished
\* pass has made exactly N delays.
C9_DelayAfterEveryUrl ==
    LET fs == EvSel({ "fetch", "sleep" })
        rest == EvSel({ "send_email", "compose" } \cup SmtpOps)
    IN  /\ \A k \in 1..Len(fs) :
               fs[k] = Event(IF k % 2 = 1 THEN "fetch" ELSE "sleep", (k + 1) \div 2,
                             fs[k].ok)
        /\ pc = "fetch" => Count("sleep") = idx - 1
        /\ AfterCheck => Count("sleep") = Len(urls)
        /\ rest # << >> => (AfterCheck /\ Count("sleep") = Len(urls))

C9_Witness ==
    /\ pc = "done" /\ Len(urls) = 3 /\ EmailCalled
    /\ Outcome(3) = "fetch-error"
    /\ Count("sleep") = 3

(***************************************************************************)
(* C10                                                                     *)
(***************************************************************************)
SmtpOrder == << "connect", "starttls", "login", "send" >>

\* C10: a send_email call opens at most one session and takes the steps connect,
\* STARTTLS, login, send in that order; a failed step is the last of them; the
\* session, once opened, is closed before send_email returns; no step is taken
\* twice; True is returned only after the send step succeeded, and False after
\* any failure.
C10_SmtpSessionDiscipline ==
    LET steps == EvSel(SmtpOps \ { "close" })
        closes == EvSel({ "close" })
        all == EvSel(SmtpOps)
        opened == Happened("connect", 0, TRUE)
        returned == EmailCalled /\ pc = "done"
    IN  /\ Len(steps) <= Len(SmtpOrder)
        /\ \A k \in 1..Len(steps) : steps[k].op = SmtpOrder[k]
        /\ \A k \in 1..(Len(steps) - 1) : steps[k].ok
        /\ Len(closes) <= 1
        /\ closes # << >> =>
               /\ opened
               /\ all[Len(all)].op = "close"
               /\ ~steps[Len(steps)].ok \/ Len(steps) = Len(SmtpOrder)
        /\ session = "open" <=> (opened /\ closes = << >>)
        /\ session = "open" => pc \in { "starttls", "login", "send", "exit" }
        /\ returned => (session = "closed" <=> opened)
        /\ send_result => (returned /\ Happened("send", 0, TRUE))
        /\ (returned /\ \E k \in 1..Len(all) : ~all[k].ok) => ~send_result

C10_Witness ==
    /\ pc = "done" /\ EmailCalled
    /\ Happened("login", 0, FALSE)
    /\ session = "closed" /\ ~send_result
    /\ Count("send") = 0

====
